---- MODULE Spec2Model ----
(***************************************************************************)
(* Model of the coping-tool recommendation engine (copingRecommendation.ts,*)
(* src/unnamed/part_001): keyword sentiment analysis, mood intensity,      *)
(* additive scoring, explanation generation, ranking and context building. *)
(* Strings are TLA+ strings; the string functions of the source            *)
(* (toLowerCase, includes, join) are computed character by character.      *)
(***************************************************************************)
EXTENDS Integers, Sequences, FiniteSets, TLC

VARIABLES
    tool,          \* scoring: the CopingTool handed to the map callback
    context,       \* the RecommendationContext in use (NULL before it is built)
    scored,        \* scoring: the RecommendedTool the map callback returned
    tools,         \* ranking: the catalog passed to getRecommendedCopingTools
    recommended,   \* ranking: the array getRecommendedCopingTools returned
    checkIns,      \* context building: the check-ins argument
    chatMessages,  \* context building: the chatMessages argument
    now,           \* context building: the clock read by new Date()
    analyzedText,      \* sentiment analysis: the text passed to analyzeChatSentiment
    analysis,      \* sentiment analysis: the object analyzeChatSentiment returned
    heap,          \* repeated calls: the objects and arrays of the program, by reference
    toolsRef,      \* repeated calls: the reference the caller passes as `tools`
    scoredTools,   \* repeated calls: the reference the call returned (scoredTools)
    pc             \* which call is in progress, and whether it has returned

\* The variables of the specification of repeated calls.
memory == <<heap, toolsRef, scoredTools>>

vars == <<tool, context, scored, tools, recommended, checkIns, chatMessages, now,
          analyzedText, analysis, memory, pc>>

\* The value of a variable that no call has written yet, or that the call in
\* progress does not use.
NotYet == <<>>

\* JavaScript's null (in a string-valued field) and undefined (in a number-valued
\* field: the value of a property lookup that finds no key). UNDEFINED is no
\* number of the program; every `>=` with it is false, as in JavaScript.
NULL == "null"
UNDEFINED == -1

----------------------------------------------------------------------------
(* Types *)

Mood == {"anxious", "frustrated", "sad", "neutral", "calm", "happy"}
CopingCategory == {"breathing", "grounding", "cognitive", "movement", "reflection"}
IntensityLevel == {"low", "medium", "high"}

----------------------------------------------------------------------------
(* String functions of the JavaScript runtime *)

\* The texts of the model are over ASCII and Latin-1 (U+0020..U+007E, tab, line
\* feed, carriage return, form feed, U+00A1..U+00FF), less the grave accent
\* U+0060 and the soft hyphen U+00AD. A character beyond U+00FF cannot in general
\* be written in a string of this module together with its lower-case form (the
\* Kelvin sign U+212A, which toLowerCase maps to "k", and the dotted capital I
\* U+0130, which it maps to two characters, cannot be written at all), so
\* toLowerCase is left undefined on it.

\* The upper-case letters of the alphabet: A..Z, U+00C0..U+00D6, U+00D8..U+00DE.
UpperCaseLetters == "ABCDEFGHIJKLMNOPQRSTUVWXYZÀÁÂÃÄÅÆÇÈÉÊËÌÍÎÏÐÑÒÓÔÕÖØÙÚÛÜÝÞ"
\* Their lower-case forms, position by position: a..z, U+00E0..U+00F6,
\* U+00F8..U+00FE.
LowerCaseLetters == "abcdefghijklmnopqrstuvwxyzàáâãäåæçèéêëìíîïðñòóôõöøùúûüýþ"

\* The characters of the alphabet that have no other lower-case form: digits,
\* white space, punctuation, symbols, and the letters U+00AA, U+00B5, U+00BA,
\* U+00DF and U+00FF.
OtherCharacters ==
    " !#$%&'()*+,-./0123456789:;<=>?@[]^_{|}~\"\\\t\n\r\f"
    \o "¡¢£¤¥¦§¨©ª«¬®¯°±²³´µ¶·¸¹º»¼½¾¿×ß÷ÿ"

CharsOf(s) == { SubSeq(s, i, i) : i \in 1..Len(s) }

UpperCaseChars == CharsOf(UpperCaseLetters)
UnchangedChars == CharsOf(LowerCaseLetters) \cup CharsOf(OtherCharacters)

\* The lower-case letter of each upper-case letter.
LowerCaseOf ==
    [ c \in UpperCaseChars |->
        LET i == CHOOSE j \in 1..Len(UpperCaseLetters) : SubSeq(UpperCaseLetters, j, j) = c
        IN  SubSeq(LowerCaseLetters, i, i) ]

\* One character of String.prototype.toLowerCase: the Unicode lower-case
\* mapping, on the alphabet above.
lowerChar(c) ==
    CASE c \in UpperCaseChars -> LowerCaseOf[c]
      [] c \in UnchangedChars -> c

RECURSIVE toLowerCase(_)
toLowerCase(s) ==
    IF Len(s) = 0 THEN ""
    ELSE lowerChar(SubSeq(s, 1, 1)) \o toLowerCase(SubSeq(s, 2, Len(s)))

\* String.prototype.includes: kw occurs in s as a contiguous substring.
includes(s, kw) ==
    \E i \in 1..(Len(s) - Len(kw) + 1) : SubSeq(s, i, i + Len(kw) - 1) = kw

\* Array.prototype.join over an array of strings.
RECURSIVE join(_, _)
join(strs, sep) ==
    IF Len(strs) = 0 THEN ""
    ELSE IF Len(strs) = 1 THEN strs[1]
    ELSE strs[1] \o sep \o join(Tail(strs), sep)

----------------------------------------------------------------------------
(* Sentiment and keyword analysis *)

CRISIS_KEYWORDS ==
    <<"panic", "overwhelmed", "heart racing", "can't breathe", "scared",
      "terrified", "anxiety attack", "out of control", "dizzy", "shaking">>

LOW_MOOD_KEYWORDS ==
    <<"tired", "hopeless", "alone", "sad", "depressed", "empty",
      "worthless", "numb", "crying", "heavy", "dark">>

STRESS_KEYWORDS ==
    <<"stressed", "overloaded", "too much", "pressure", "deadline",
      "exhausted", "tense", "tight", "sore", "headache">>

\* Faulty variant of firstMatch: every keyword the text includes is pushed (a
\* forEach or filter in place of some, which stops at the first true).
RECURSIVE everyMatch(_, _)
everyMatch(lower, list) ==
    IF Len(list) = 0 THEN <<>>
    ELSE (IF includes(lower, Head(list)) THEN <<Head(list)>> ELSE <<>>)
         \o everyMatch(lower, Tail(list))

\* Array.prototype.some with the callback of analyzeChatSentiment: the callback
\* pushes kw and returns true at the first keyword the text includes, and some()
\* stops there. The result is the keywords pushed (none, or that one keyword).
firstMatch(lower, list) ==
    IF \E i \in 1..Len(list) : includes(lower, list[i])
    THEN LET i == CHOOSE j \in 1..Len(list) :
                      /\ includes(lower, list[j])
                      /\ \A k \in 1..(j - 1) : ~includes(lower, list[k])
         IN  <<list[i]>>
    ELSE <<>>

\* The body of analyzeChatSentiment.
scanChatSentiment(chatText) ==
    LET lower == toLowerCase(chatText)
        crisis == firstMatch(lower, CRISIS_KEYWORDS)
        lowMood == firstMatch(lower, LOW_MOOD_KEYWORDS)
        stress == firstMatch(lower, STRESS_KEYWORDS)
    IN  [ keywords   |-> crisis \o lowMood \o stress,
          hasCrisis  |-> crisis # <<>>,
          hasLowMood |-> lowMood # <<>>,
          hasStress  |-> stress # <<>> ]

\* Chat summaries given to the engine directly: one for each combination of the
\* three sentiment flags, in mixed case.
ChatSummaries ==
    { "",
      "I feel panic",
      "so tired",
      "big deadline",
      "panic and tired",
      "Panic before the deadline",
      "tired, too much",
      "Scared, alone, TENSE" }

\* The chat of the documented scenarios: crisis and low mood as one message,
\* High Anxiety and Low Mood as the two messages of the test scenarios.
SCENARIO_A_TEXT == "I'm having a panic attack, can't breathe"
SCENARIO_B_TEXT == "Feeling hopeless today, everything feels heavy"
HIGH_ANXIETY_MESSAGES ==
    << [text |-> "I'm having a panic attack"], [text |-> "Can't breathe"] >>
LOW_MOOD_MESSAGES ==
    << [text |-> "Feeling hopeless today"], [text |-> "Everything feels heavy"] >>

\* The summaries that buildRecommendationContext makes of these chats.
ScenarioSummaries ==
    { SCENARIO_A_TEXT,
      SCENARIO_B_TEXT,
      "I'm having a panic attack Can't breathe",
      "Feeling hopeless today Everything feels heavy" }

\* scanChatSentiment of each of these summaries, evaluated once.
SentimentTable ==
    [ txt \in ChatSummaries \cup ScenarioSummaries |-> scanChatSentiment(txt) ]

\* analyzeChatSentiment is a function of its argument alone: the scan, looked up
\* in the table when the text is one of ChatSummaries.
analyzeChatSentiment(chatText) ==
    IF chatText \in DOMAIN SentimentTable
    THEN SentimentTable[chatText]
    ELSE scanChatSentiment(chatText)

----------------------------------------------------------------------------
(* Mood intensity mapping *)

\* The keys that every object literal inherits from Object.prototype.
ObjectPrototypeKeys ==
    << "constructor", "hasOwnProperty", "isPrototypeOf", "propertyIsEnumerable",
       "toLocaleString", "toString", "valueOf", "__defineGetter__",
       "__defineSetter__", "__lookupGetter__", "__lookupSetter__", "__proto__" >>

\* The value Object.prototype holds under the i-th of these keys: a function
\* (the object Object.prototype itself under "__proto__"), written as the
\* negative number -(1 + i). It is not a number and not undefined.
inheritedValue(i) == 0 - (1 + i)

\* typeof x === "number": the numbers of the model are the naturals.
isNumber(x) == x >= 0

\* intensityMap[mood]: a property lookup on an object literal: the number of an
\* own key, the inherited value of a key of Object.prototype, undefined for any
\* other key.
intensityMap(mood) ==
    CASE mood = "anxious"    -> 8
      [] mood = "frustrated" -> 7
      [] mood = "sad"        -> 6
      [] mood = "neutral"    -> 4
      [] mood = "calm"       -> 3
      [] mood = "happy"      -> 2
      [] \E i \in 1..Len(ObjectPrototypeKeys) : ObjectPrototypeKeys[i] = mood
           -> inheritedValue(CHOOSE i \in 1..Len(ObjectPrototypeKeys) :
                                 ObjectPrototypeKeys[i] = mood)
      [] OTHER               -> UNDEFINED

\* Truthiness of a string-or-null value: null and the empty string are falsy.
truthy(v) == v # NULL /\ v # ""

DEFAULT_INTENSITY == 5

\* Faulty variant of getMoodIntensity: the lookup without the default.
getMoodIntensityNoDefault(mood) == intensityMap(mood)

\* `mood ? intensityMap[mood] : 5`
getMoodIntensity(mood) ==
    IF truthy(mood) THEN intensityMap(mood) ELSE DEFAULT_INTENSITY

\* `x >= n`: undefined, a function and an object convert to NaN, and a
\* comparison with NaN is false.
atLeast(x, n) == isNumber(x) /\ x >= n

----------------------------------------------------------------------------
(* Core recommendation algorithm *)

Min(a, b) == IF a <= b THEN a ELSE b

MOOD_MATCH_POINTS == 40
MOOD_PARTIAL_POINTS == 20
SENTIMENT_POINTS == 30
SCORE_CAP == 100

\* Faulty variant of moodCompatibility: the else-if branch (partial credit for a
\* mood the tool does not list) is missing.
moodCompatibilityNoPartialCredit(t, ctx) ==
    IF truthy(ctx.currentMood) /\ ctx.currentMood \in t.supportedMoods
    THEN MOOD_MATCH_POINTS
    ELSE 0

\* 1. Mood compatibility (0-40 points).
moodCompatibility(t, ctx) ==
    IF truthy(ctx.currentMood) /\ ctx.currentMood \in t.supportedMoods
    THEN MOOD_MATCH_POINTS
    ELSE IF truthy(ctx.currentMood) THEN MOOD_PARTIAL_POINTS
    ELSE 0

\* Faulty variant of sentimentAlignment: three independent ifs instead of an
\* if / else-if chain, so every matching category is rewarded.
sentimentAlignmentIndependent(t, ctx) ==
    LET sentiment == analyzeChatSentiment(ctx.recentChatSummary)
    IN  (IF sentiment.hasCrisis /\ t.category \in {"breathing", "grounding"}
         THEN SENTIMENT_POINTS ELSE 0)
        + (IF sentiment.hasLowMood /\ t.category \in {"reflection", "cognitive"}
           THEN SENTIMENT_POINTS ELSE 0)
        + (IF sentiment.hasStress /\ t.category \in {"movement", "grounding"}
           THEN SENTIMENT_POINTS ELSE 0)

\* 2. Chat sentiment alignment (0-30 points): an if / else-if chain.
sentimentAlignment(t, ctx) ==
    LET sentiment == analyzeChatSentiment(ctx.recentChatSummary)
    IN  IF sentiment.hasCrisis
        THEN (IF t.category \in {"breathing", "grounding"} THEN SENTIMENT_POINTS ELSE 0)
        ELSE IF sentiment.hasLowMood
        THEN (IF t.category \in {"reflection", "cognitive"} THEN SENTIMENT_POINTS ELSE 0)
        ELSE IF sentiment.hasStress
        THEN (IF t.category \in {"movement", "grounding"} THEN SENTIMENT_POINTS ELSE 0)
        ELSE 0

\* Faulty variant of intensityMatching: a tool of the level opposite to the
\* tier is penalised by 10 points instead of left alone.
intensityMatchingPenalising(t, ctx) ==
    IF atLeast(ctx.moodIntensity, 7)
    THEN (IF t.intensityLevel = "high" THEN 20 ELSE 0)
         + (IF t.intensityLevel = "medium" THEN 10 ELSE 0)
         - (IF t.intensityLevel = "low" THEN 10 ELSE 0)
    ELSE IF atLeast(ctx.moodIntensity, 4)
    THEN (IF t.intensityLevel = "medium" THEN 20 ELSE 0)
         + (IF t.intensityLevel = "low" THEN 15 ELSE 0)
         - (IF t.intensityLevel = "high" THEN 10 ELSE 0)
    ELSE (IF t.intensityLevel = "low" THEN 20 ELSE 0)
         + (IF t.intensityLevel = "medium" THEN 10 ELSE 0)
         - (IF t.intensityLevel = "high" THEN 10 ELSE 0)

\* Faulty variant of intensityMatching: the high tier starts at 6.
intensityMatchingHighFromSix(t, ctx) ==
    IF atLeast(ctx.moodIntensity, 6)
    THEN (IF t.intensityLevel = "high" THEN 20 ELSE 0)
         + (IF t.intensityLevel = "medium" THEN 10 ELSE 0)
    ELSE IF atLeast(ctx.moodIntensity, 4)
    THEN (IF t.intensityLevel = "medium" THEN 20 ELSE 0)
         + (IF t.intensityLevel = "low" THEN 15 ELSE 0)
    ELSE (IF t.intensityLevel = "low" THEN 20 ELSE 0)
         + (IF t.intensityLevel = "medium" THEN 10 ELSE 0)

\* 3. Intensity matching (0-20 points).
intensityMatching(t, ctx) ==
    IF atLeast(ctx.moodIntensity, 7)
    THEN (IF t.intensityLevel = "high" THEN 20 ELSE 0)
         + (IF t.intensityLevel = "medium" THEN 10 ELSE 0)
    ELSE IF atLeast(ctx.moodIntensity, 4)
    THEN (IF t.intensityLevel = "medium" THEN 20 ELSE 0)
         + (IF t.intensityLevel = "low" THEN 15 ELSE 0)
    ELSE (IF t.intensityLevel = "low" THEN 20 ELSE 0)
         + (IF t.intensityLevel = "medium" THEN 10 ELSE 0)

\* Faulty variant of durationPreference: applied whatever the mood.
durationPreferenceAnyMood(t, ctx) ==
    IF t.durationMinutes <= 3 THEN 10
    ELSE IF t.durationMinutes <= 5 THEN 5
    ELSE 0

\* Faulty variant of durationPreference: the bounds strict (< 3, < 5).
durationPreferenceStrictBounds(t, ctx) ==
    IF ~truthy(ctx.currentMood) \/ ctx.currentMood = "neutral"
    THEN (IF t.durationMinutes < 3 THEN 10
          ELSE IF t.durationMinutes < 5 THEN 5
          ELSE 0)
    ELSE 0

\* 4. Duration preference (0-10 points).
durationPreference(t, ctx) ==
    IF ~truthy(ctx.currentMood) \/ ctx.currentMood = "neutral"
    THEN (IF t.durationMinutes <= 3 THEN 10
          ELSE IF t.durationMinutes <= 5 THEN 5
          ELSE 0)
    ELSE 0

scoreTool(t, ctx) ==
    Min(moodCompatibility(t, ctx) + sentimentAlignment(t, ctx)
          + intensityMatching(t, ctx) + durationPreference(t, ctx),
        SCORE_CAP)

\* The reasons array of generateExplanation, after its three pushes.
explanationReasons(t, ctx) ==
    LET sentiment == analyzeChatSentiment(ctx.recentChatSummary)
        moodReason ==
            IF truthy(ctx.currentMood)
            THEN <<"you felt " \o ctx.currentMood \o " today">>
            ELSE <<>>
        chatReason ==
            IF sentiment.hasCrisis /\ t.category \in {"breathing", "grounding"}
            THEN <<"you mentioned feeling overwhelmed">>
            ELSE IF sentiment.hasLowMood /\ t.category \in {"reflection", "cognitive"}
            THEN <<"you expressed feelings of sadness or hopelessness">>
            ELSE IF sentiment.hasStress /\ t.category \in {"movement", "grounding"}
            THEN <<"you mentioned feeling stressed or tense">>
            ELSE <<>>
        intensityReason ==
            IF atLeast(ctx.moodIntensity, 7) /\ t.intensityLevel = "high"
            THEN <<"this offers quick relief">>
            ELSE <<>>
    IN  moodReason \o chatReason \o intensityReason

\* Faulty variant of generateExplanation: the reasons joined by ", ".
generateExplanationCommaJoined(t, ctx) ==
    LET reasons == explanationReasons(t, ctx)
    IN  IF Len(reasons) = 0
        THEN "This " \o t.category \o " technique is gentle and effective."
        ELSE "This technique is suggested because " \o join(reasons, ", ") \o "."

generateExplanation(t, ctx) ==
    LET reasons == explanationReasons(t, ctx)
    IN  IF Len(reasons) = 0
        THEN "This " \o t.category \o " technique is gentle and effective."
        ELSE "This technique is suggested because " \o join(reasons, " and ") \o "."

\* The callback of tools.map in getRecommendedCopingTools:
\* {...tool, score: scoreTool(tool, context), reason: generateExplanation(tool, context)}
scoreAndExplain(t, ctx) ==
    [ id              |-> t.id,
      title           |-> t.title,
      category        |-> t.category,
      supportedMoods  |-> t.supportedMoods,
      intensityLevel  |-> t.intensityLevel,
      durationMinutes |-> t.durationMinutes,
      score           |-> scoreTool(t, ctx),
      reason          |-> generateExplanation(t, ctx) ]

\* Faulty variant of compareByScore: the operands swapped (lowest first).
compareByScoreAscending(a, b) == a.score - b.score

\* The comparator of scoredTools.sort: (a, b) => b.score - a.score.
compareByScore(a, b) == b.score - a.score

\* Faulty variant of insertByScore: an unstable sort, which places x before the
\* elements it ties with.
RECURSIVE insertByScoreBeforeTies(_, _)
insertByScoreBeforeTies(sorted, x) ==
    IF Len(sorted) = 0 THEN <<x>>
    ELSE IF compareByScore(Head(sorted), x) < 0
    THEN <<Head(sorted)>> \o insertByScoreBeforeTies(Tail(sorted), x)
    ELSE <<x>> \o sorted

\* Array.prototype.sort is stable (ECMAScript 2019): x, which follows every
\* element of `sorted` in the array, is placed before an element y only when
\* the comparator puts y after x.
RECURSIVE insertByScore(_, _)
insertByScore(sorted, x) ==
    IF Len(sorted) = 0 THEN <<x>>
    ELSE IF compareByScore(Head(sorted), x) <= 0
    THEN <<Head(sorted)>> \o insertByScore(Tail(sorted), x)
    ELSE <<x>> \o sorted

\* Faulty variant of sortByScore: the sort omitted, the array left in map order.
sortByScoreOmitted(arr) == arr

RECURSIVE sortByScore(_)
sortByScore(arr) ==
    IF Len(arr) = 0 THEN <<>>
    ELSE insertByScore(sortByScore(SubSeq(arr, 1, Len(arr) - 1)), arr[Len(arr)])

\* tools.map(tool => ({...tool, score, reason}))
mapTools(ts, ctx) == [ i \in 1..Len(ts) |-> scoreAndExplain(ts[i], ctx) ]

DISPLAY_THRESHOLD == 50

\* Faulty variant of getRecommendedCopingTools: the display threshold of the
\* page (a reason is shown for a score of 50 or more) applied as a filter.
getRecommendedAboveThreshold(ts, ctx) ==
    LET atThreshold(r) == r.score >= DISPLAY_THRESHOLD
    IN  sortByScore(SelectSeq(mapTools(ts, ctx), atThreshold))

getRecommendedCopingTools(ts, ctx) == sortByScore(mapTools(ts, ctx))

----------------------------------------------------------------------------
(* Context building *)

HOURS_PER_DAY == 24
MAX_SUMMARY_MESSAGES == 5

\* Date.prototype.toDateString of a timestamp counted in hours: the calendar day.
toDateString(t) == t \div HOURS_PER_DAY

\* checkIns.filter(item => new Date(item.createdAt).toDateString() === today)
RECURSIVE filterToday(_, _)
filterToday(items, today) ==
    IF Len(items) = 0 THEN <<>>
    ELSE (IF toDateString(Head(items).createdAt) = today THEN <<Head(items)>> ELSE <<>>)
         \o filterToday(Tail(items), today)

\* Faulty variant of messageTexts: slice(-5), the last five messages.
messageTextsLastFive(msgs) ==
    LET n == Min(Len(msgs), MAX_SUMMARY_MESSAGES)
    IN  [ i \in 1..n |-> msgs[Len(msgs) - n + i].text ]

\* chatMessages.slice(0, 5).map(m => m.text)
messageTexts(msgs) ==
    [ i \in 1..Min(Len(msgs), MAX_SUMMARY_MESSAGES) |-> msgs[i].text ]

\* Faulty variant of buildRecommendationContext: today's check-ins sorted by
\* createdAt, so that currentMood is the mood of the latest one.
buildRecommendationContextLatest(items, chats, clock) ==
    LET today == toDateString(clock)
        todayCheckIns == filterToday(items, today)
        latest == CHOOSE i \in 1..Len(todayCheckIns) :
                      /\ \A k \in 1..Len(todayCheckIns) :
                             todayCheckIns[k].createdAt <= todayCheckIns[i].createdAt
                      /\ \A k \in 1..(i - 1) :
                             todayCheckIns[k].createdAt < todayCheckIns[i].createdAt
        currentMood == IF Len(todayCheckIns) > 0 THEN todayCheckIns[latest].mood ELSE NULL
        moodIntensity == getMoodIntensity(currentMood)
        recentChatSummary == IF chats.given THEN join(messageTexts(chats.list), " ") ELSE ""
    IN  [ currentMood       |-> currentMood,
          moodIntensity     |-> moodIntensity,
          recentChatSummary |-> recentChatSummary,
          chatKeywords      |-> analyzeChatSentiment(recentChatSummary).keywords ]

\* buildRecommendationContext(checkIns, chatMessages) with the clock at `clock`.
\* chats.given is false when the optional argument is omitted.
buildRecommendationContext(items, chats, clock) ==
    LET today == toDateString(clock)
        todayCheckIns == filterToday(items, today)
        currentMood == IF Len(todayCheckIns) > 0 THEN todayCheckIns[1].mood ELSE NULL
        moodIntensity == getMoodIntensity(currentMood)
        recentChatSummary == IF chats.given THEN join(messageTexts(chats.list), " ") ELSE ""
    IN  [ currentMood       |-> currentMood,
          moodIntensity     |-> moodIntensity,
          recentChatSummary |-> recentChatSummary,
          chatKeywords      |-> analyzeChatSentiment(recentChatSummary).keywords ]

----------------------------------------------------------------------------
(* The shipped catalog *)

EVIDENCE_BASED_COPING_TOOLS ==
  <<
    [ id              |-> "box-breathing",
      title           |-> "Box Breathing",
      category        |-> "breathing",
      supportedMoods  |-> {"anxious", "frustrated", "neutral"},
      intensityLevel  |-> "high",
      durationMinutes |-> 2 ],
    [ id              |-> "478-breathing",
      title           |-> "4-7-8 Breathing",
      category        |-> "breathing",
      supportedMoods  |-> {"anxious", "frustrated", "sad", "neutral"},
      intensityLevel  |-> "medium",
      durationMinutes |-> 3 ],
    [ id              |-> "simple-breathing",
      title           |-> "Simple Breathing",
      category        |-> "breathing",
      supportedMoods  |-> {"anxious", "frustrated", "neutral", "calm"},
      intensityLevel  |-> "low",
      durationMinutes |-> 2 ],
    [ id              |-> "54321-grounding",
      title           |-> "5-4-3-2-1 Grounding",
      category        |-> "grounding",
      supportedMoods  |-> {"anxious", "frustrated", "sad"},
      intensityLevel  |-> "high",
      durationMinutes |-> 3 ],
    [ id              |-> "body-scan",
      title           |-> "Body Scan Meditation",
      category        |-> "grounding",
      supportedMoods  |-> {"anxious", "frustrated", "neutral", "calm"},
      intensityLevel  |-> "medium",
      durationMinutes |-> 5 ],
    [ id              |-> "progressive-muscle-relaxation",
      title           |-> "Progressive Muscle Relaxation",
      category        |-> "grounding",
      supportedMoods  |-> {"anxious", "frustrated", "neutral"},
      intensityLevel  |-> "medium",
      durationMinutes |-> 7 ],
    [ id              |-> "cognitive-reframing",
      title           |-> "Cognitive Reframing",
      category        |-> "cognitive",
      supportedMoods  |-> {"anxious", "sad", "frustrated", "neutral"},
      intensityLevel  |-> "medium",
      durationMinutes |-> 5 ],
    [ id              |-> "thought-journaling",
      title           |-> "Thought Journaling",
      category        |-> "cognitive",
      supportedMoods  |-> {"anxious", "sad", "frustrated", "neutral"},
      intensityLevel  |-> "low",
      durationMinutes |-> 10 ],
    [ id              |-> "affirmations",
      title           |-> "Self-Affirmations",
      category        |-> "reflection",
      supportedMoods  |-> {"sad", "frustrated", "neutral", "anxious"},
      intensityLevel  |-> "low",
      durationMinutes |-> 2 ],
    [ id              |-> "gratitude-reflection",
      title           |-> "Gratitude Reflection",
      category        |-> "reflection",
      supportedMoods  |-> {"sad", "neutral", "calm", "happy"},
      intensityLevel  |-> "low",
      durationMinutes |-> 3 ],
    [ id              |-> "self-compassion",
      title           |-> "Self-Compassion Break",
      category        |-> "reflection",
      supportedMoods  |-> {"sad", "frustrated", "anxious", "neutral"},
      intensityLevel  |-> "low",
      durationMinutes |-> 4 ],
    [ id              |-> "quick-exercises",
      title           |-> "Movement Reset",
      category        |-> "movement",
      supportedMoods  |-> {"frustrated", "anxious", "neutral", "happy"},
      intensityLevel  |-> "medium",
      durationMinutes |-> 5 ]
  >>

----------------------------------------------------------------------------
(* Inputs of the scoring specification *)

MaxDuration == 6
MIN_INTENSITY == 1
MAX_INTENSITY == 10

\* supportedMoods of the tools scored: none, and two lists of the shipped catalog
\* (box-breathing, gratitude-reflection), which between them hold every mood.
SupportedMoodSets ==
    { {},
      {"anxious", "frustrated", "neutral"},
      {"sad", "neutral", "calm", "happy"} }

ToolDomain ==
    [ id              : {"tool"},
      title           : {"Tool"},
      category        : CopingCategory,
      supportedMoods  : SupportedMoodSets,
      intensityLevel  : IntensityLevel,
      durationMinutes : 1..MaxDuration ]

ContextDomain ==
    { [ currentMood       |-> m,
        moodIntensity     |-> i,
        recentChatSummary |-> txt,
        chatKeywords      |-> analyzeChatSentiment(txt).keywords ] :
      m \in Mood \cup {NULL}, i \in MIN_INTENSITY..MAX_INTENSITY, txt \in ChatSummaries }

----------------------------------------------------------------------------
(* Scoring specification: one tool and one context through the map callback *)

InitScore ==
    /\ pc = "score"
    /\ tool \in ToolDomain
    /\ context \in ContextDomain
    /\ scored = NotYet
    /\ tools = NotYet
    /\ recommended = NotYet
    /\ checkIns = NotYet
    /\ chatMessages = NotYet
    /\ now = 0
    /\ analyzedText = NotYet
    /\ analysis = NotYet
    /\ heap = NotYet
    /\ toolsRef = NotYet
    /\ scoredTools = NotYet

MapCallback ==
    /\ pc = "score"
    /\ scored' = scoreAndExplain(tool, context)
    /\ pc' = "scored"
    /\ UNCHANGED <<tool, context, tools, recommended, checkIns, chatMessages, now, analyzedText, analysis, memory>>

NextScore == MapCallback

SpecScore == InitScore /\ [][NextScore]_vars

----------------------------------------------------------------------------
(* Ranking specification: a catalog and a context through                   *)
(* getRecommendedCopingTools                                                *)

MaxTools == 3

\* Catalog entries drawn: box-breathing, 54321-grounding, affirmations,
\* self-compassion (which ties with affirmations unless duration counts) and
\* quick-exercises.
PoolIndexes == {1, 4, 9, 11, 12}

\* Catalogs: every sequence of at most MaxTools pool entries with distinct ids.
InjectiveIndexings(n) ==
    { g \in [1..n -> PoolIndexes] : \A i, j \in 1..n : i # j => g[i] # g[j] }

Catalogs ==
    UNION { { [ i \in 1..n |-> EVIDENCE_BASED_COPING_TOOLS[g[i]] ] : g \in InjectiveIndexings(n) } :
            n \in 0..MaxTools }

Init ==
    /\ pc = "rank"
    /\ tools \in Catalogs
    /\ context \in ContextDomain
    /\ recommended = NotYet
    /\ tool = NotYet
    /\ scored = NotYet
    /\ checkIns = NotYet
    /\ chatMessages = NotYet
    /\ now = 0
    /\ analyzedText = NotYet
    /\ analysis = NotYet
    /\ heap = NotYet
    /\ toolsRef = NotYet
    /\ scoredTools = NotYet

GetRecommendedCopingTools ==
    /\ pc = "rank"
    /\ recommended' = getRecommendedCopingTools(tools, context)
    /\ pc' = "ranked"
    /\ UNCHANGED <<tool, context, scored, tools, checkIns, chatMessages, now, analyzedText, analysis, memory>>

Next == GetRecommendedCopingTools

Spec == Init /\ [][Next]_vars

----------------------------------------------------------------------------
(* Context specification: check-ins, chat messages and a clock through      *)
(* buildRecommendationContext                                               *)

MaxCheckIns == 2

\* A mood outside the closed set, as a stored check-in can carry at run time.
UNKNOWN_MOOD == "angry"

\* Another one, which names a property that intensityMap inherits.
INHERITED_KEY_MOOD == "constructor"

\* Timestamps in hours: two on day 0 and two on day 1.
Timestamps == {9, 21, 33, 45}
Clocks == {21, 45}

CheckInDomain ==
    [ mood : Mood \cup {UNKNOWN_MOOD, INHERITED_KEY_MOOD}, createdAt : Timestamps ]

CheckInLists == UNION { [1..n -> CheckInDomain] : n \in 0..MaxCheckIns }

ChatArguments ==
    { [ given |-> FALSE, list |-> <<>> ],
      [ given |-> TRUE, list |-> <<>> ],
      [ given |-> TRUE, list |-> << [text |-> "Panic before"], [text |-> "the deadline"] >> ] }

InitContext ==
    /\ pc = "build"
    /\ checkIns \in CheckInLists
    /\ chatMessages \in ChatArguments
    /\ now \in Clocks
    /\ context = NotYet
    /\ tool = NotYet
    /\ scored = NotYet
    /\ tools = NotYet
    /\ recommended = NotYet
    /\ analyzedText = NotYet
    /\ analysis = NotYet
    /\ heap = NotYet
    /\ toolsRef = NotYet
    /\ scoredTools = NotYet

\* The function has no throw statement and calls nothing that throws on these
\* arguments: every call returns a context.
BuildRecommendationContext ==
    /\ pc = "build"
    /\ context' = buildRecommendationContext(checkIns, chatMessages, now)
    /\ pc' = "returned"
    /\ UNCHANGED <<tool, scored, tools, recommended, checkIns, chatMessages, now, analyzedText, analysis, memory>>

NextContext == BuildRecommendationContext

SpecContext == InitContext /\ [][NextContext]_vars

----------------------------------------------------------------------------
(* Summary specification: chat messages through buildRecommendationContext  *)

MaxMessages == 6

\* Message texts: a crisis term in upper case, a stress term with a space in
\* it, and a text that matches nothing.
MessageTexts == {"PANIC", "too much", "ok"}

MessageLists == UNION { [1..n -> [text : MessageTexts]] : n \in 0..MaxMessages }

SummaryChatArguments ==
    { [ given |-> FALSE, list |-> <<>> ] }
    \cup { [ given |-> TRUE, list |-> msgs ] : msgs \in MessageLists }

InitSummary ==
    /\ pc = "build"
    /\ checkIns = << [mood |-> "calm", createdAt |-> 33] >>
    /\ chatMessages \in SummaryChatArguments
    /\ now = 45
    /\ context = NotYet
    /\ tool = NotYet
    /\ scored = NotYet
    /\ tools = NotYet
    /\ recommended = NotYet
    /\ analyzedText = NotYet
    /\ analysis = NotYet
    /\ heap = NotYet
    /\ toolsRef = NotYet
    /\ scoredTools = NotYet

NextSummary == BuildRecommendationContext

SpecSummary == InitSummary /\ [][NextSummary]_vars

----------------------------------------------------------------------------
(* Scenario specification: the data flow from check-ins and chat to a score  *)

ScenarioCheckInLists ==
    { <<>> } \cup { << [mood |-> m, createdAt |-> t] >> : m \in Mood, t \in Timestamps }

ScenarioChatArguments ==
    { [ given |-> FALSE, list |-> <<>> ],
      [ given |-> TRUE, list |-> <<>> ],
      [ given |-> TRUE, list |-> << [text |-> SCENARIO_A_TEXT] >> ],
      [ given |-> TRUE, list |-> << [text |-> SCENARIO_B_TEXT] >> ] }

InitScenario ==
    /\ pc = "build"
    /\ checkIns \in ScenarioCheckInLists
    /\ chatMessages \in ScenarioChatArguments
    /\ now \in Clocks
    /\ tool \in ToolDomain
    /\ context = NotYet
    /\ scored = NotYet
    /\ tools = NotYet
    /\ recommended = NotYet
    /\ analyzedText = NotYet
    /\ analysis = NotYet
    /\ heap = NotYet
    /\ toolsRef = NotYet
    /\ scoredTools = NotYet

\* The map callback applied to the context that buildRecommendationContext
\* returned.
ScoreBuiltContext ==
    /\ pc = "returned"
    /\ scored' = scoreAndExplain(tool, context)
    /\ pc' = "scored"
    /\ UNCHANGED <<tool, context, tools, recommended, checkIns, chatMessages, now, analyzedText, analysis, memory>>

NextScenario == BuildRecommendationContext \/ ScoreBuiltContext

SpecScenario == InitScenario /\ [][NextScenario]_vars

----------------------------------------------------------------------------
(* Shipped-catalog specification: the data flow from check-ins and chat to    *)
(* the ranking of EVIDENCE_BASED_COPING_TOOLS                                *)

ShippedChatArguments ==
    { [ given |-> FALSE, list |-> <<>> ],
      [ given |-> TRUE, list |-> <<>> ],
      [ given |-> TRUE, list |-> HIGH_ANXIETY_MESSAGES ],
      [ given |-> TRUE, list |-> LOW_MOOD_MESSAGES ] }

InitShipped ==
    /\ pc = "build"
    /\ tools = EVIDENCE_BASED_COPING_TOOLS
    /\ checkIns \in ScenarioCheckInLists
    /\ chatMessages \in ShippedChatArguments
    /\ now \in Clocks
    /\ context = NotYet
    /\ recommended = NotYet
    /\ tool = NotYet
    /\ scored = NotYet
    /\ analyzedText = NotYet
    /\ analysis = NotYet
    /\ heap = NotYet
    /\ toolsRef = NotYet
    /\ scoredTools = NotYet

\* getRecommendedCopingTools called with the context that
\* buildRecommendationContext returned.
RecommendForBuiltContext ==
    /\ pc = "returned"
    /\ recommended' = getRecommendedCopingTools(tools, context)
    /\ pc' = "ranked"
    /\ UNCHANGED <<tool, context, scored, tools, checkIns, chatMessages, now, analyzedText, analysis, memory>>

NextShipped == BuildRecommendationContext \/ RecommendForBuiltContext

SpecShipped == InitShipped /\ [][NextShipped]_vars

----------------------------------------------------------------------------
(* Repeated-calls specification: one catalog through a sequence of calls of   *)
(* getRecommendedCopingTools with changing contexts                          *)

\* Contexts as buildRecommendationContext makes them: the intensity is that of
\* the mood.
CallContexts ==
    { [ currentMood       |-> m,
        moodIntensity     |-> getMoodIntensity(m),
        recentChatSummary |-> txt,
        chatKeywords      |-> analyzeChatSentiment(txt).keywords ] :
      m \in Mood \cup {NULL}, txt \in ChatSummaries }

\* Objects and arrays are held by reference in this specification, so that a
\* write to an object or an array the caller holds can be told from the making
\* of a new one. The heap has three stores over one space of addresses:
\* objects (address -> properties of a tool object, its supportedMoods being
\* the address of an array of moods), moods (address -> that array, as the set
\* its includes() reads) and arrays (address -> sequence of object addresses).
NO_REF == 0

Max(S) == CHOOSE x \in S : \A y \in S : y <= x

\* The address of the next object or array made.
nextAddress(h) ==
    1 + Max(DOMAIN h.objects \cup DOMAIN h.moods \cup DOMAIN h.arrays \cup {0})

\* The tool object at a reference as scoreTool and generateExplanation read
\* it: tool.supportedMoods followed to its array.
toolAt(h, ref) ==
    [ h.objects[ref] EXCEPT !.supportedMoods = h.moods[h.objects[ref].supportedMoods] ]

\* The array at a reference, each element followed to its object.
arrayAt(h, ref) == [ i \in 1..Len(h.arrays[ref]) |-> toolAt(h, h.arrays[ref][i]) ]

\* Faulty variant of mapCallback: score and reason assigned to the tool given
\* (tool.score = ...; tool.reason = ...; return tool) instead of to a copy.
mapCallbackAssigning(h, toolRef, ctx) ==
    LET t == toolAt(h, toolRef)
        o == h.objects[toolRef]
        written == [ f \in DOMAIN o \cup {"score", "reason"} |->
                       IF f = "score" THEN scoreTool(t, ctx)
                       ELSE IF f = "reason" THEN generateExplanation(t, ctx)
                       ELSE o[f] ]
    IN  [ heap |-> [h EXCEPT !.objects[toolRef] = written], ref |-> toolRef ]

\* The callback of tools.map on the heap: the object literal makes a new
\* object, the spread copies every property of tool into it (supportedMoods by
\* reference), then score and reason are set on the new object. The callback
\* assigns to no property of tool.
mapCallback(h, toolRef, ctx) ==
    LET t == toolAt(h, toolRef)
        o == h.objects[toolRef]
        made == [ f \in DOMAIN o \cup {"score", "reason"} |->
                    IF f = "score" THEN scoreTool(t, ctx)
                    ELSE IF f = "reason" THEN generateExplanation(t, ctx)
                    ELSE o[f] ]
        a == nextAddress(h)
    IN  [ heap |-> [h EXCEPT !.objects = (a :> made) @@ @], ref |-> a ]

\* The callback applied to the elements of an array in order, each call on the
\* heap the one before left. JavaScript evaluates a call once and hands on its
\* value: first and rest are bound to the values of the two calls (a choice
\* from a one-element set), which are not computed again.
RECURSIVE mapElements(_, _, _)
mapElements(h, refs, ctx) ==
    IF Len(refs) = 0 THEN [ heap |-> h, refs |-> <<>> ]
    ELSE CHOOSE result \in
           UNION { { [ heap |-> rest.heap, refs |-> <<first.ref>> \o rest.refs ] :
                       rest \in {mapElements(first.heap, Tail(refs), ctx)} } :
                   first \in {mapCallback(h, Head(refs), ctx)} } : TRUE

\* Array.prototype.map: a new array of what the callback returned; the array
\* mapped is only read.
arrayMap(h, arrayRef, ctx) ==
    CHOOSE result \in
      { [ heap |-> [mapped.heap EXCEPT
                      !.arrays = (nextAddress(mapped.heap) :> mapped.refs) @@ @],
          ref  |-> nextAddress(mapped.heap) ] :
        mapped \in {mapElements(h, h.arrays[arrayRef], ctx)} } : TRUE

\* Array.prototype.sort with the comparator of the source: the array at the
\* reference is reordered in place.
arraySort(h, arrayRef) ==
    LET entries == [ i \in 1..Len(h.arrays[arrayRef]) |->
                       [ ref |-> h.arrays[arrayRef][i],
                         score |-> h.objects[h.arrays[arrayRef][i]].score ] ]
        sorted == sortByScore(entries)
    IN  [ h EXCEPT !.arrays[arrayRef] = [ i \in 1..Len(sorted) |-> sorted[i].ref ] ]

\* getRecommendedCopingTools on the heap: scoredTools = tools.map(...), then
\* scoredTools.sort(...), then return scoredTools.
getRecommendedCopingToolsByReference(h, toolsReference, ctx) ==
    CHOOSE result \in
      { [ heap |-> arraySort(mapped.heap, mapped.ref), ref |-> mapped.ref ] :
        mapped \in {arrayMap(h, toolsReference, ctx)} } : TRUE

\* The heap that holds a catalog and nothing else: the tool objects at 1..n,
\* the supportedMoods array of the i-th at n + i (each tool of the catalog has
\* an array literal of its own), the catalog array at 2n + 1.
heapOfCatalog(catalog) ==
    LET n == Len(catalog)
    IN  [ objects |-> [ i \in 1..n |-> [catalog[i] EXCEPT !.supportedMoods = n + i] ],
          moods   |-> [ a \in (n + 1)..(2 * n) |-> catalog[a - n].supportedMoods ],
          arrays  |-> [ a \in {2 * n + 1} |-> [ i \in 1..n |-> i ] ] ]

\* What the caller can still reach through a reference to an array: the array,
\* its objects and their supportedMoods arrays. The rest is garbage.
reachableFrom(h, arrayRef) ==
    LET objs == { h.arrays[arrayRef][i] : i \in 1..Len(h.arrays[arrayRef]) }
    IN  [ objects |-> [ a \in objs |-> h.objects[a] ],
          moods   |-> [ a \in { h.objects[o].supportedMoods : o \in objs } |-> h.moods[a] ],
          arrays  |-> [ a \in {arrayRef} |-> h.arrays[a] ] ]

InitCalls ==
    /\ pc = "rank"
    /\ tools \in Catalogs
    /\ heap = heapOfCatalog(tools)
    /\ toolsRef = 2 * Len(tools) + 1
    /\ scoredTools = NO_REF
    /\ context \in CallContexts
    /\ recommended = NotYet
    /\ tool = NotYet
    /\ scored = NotYet
    /\ checkIns = NotYet
    /\ chatMessages = NotYet
    /\ now = 0
    /\ analyzedText = NotYet
    /\ analysis = NotYet

\* A call of getRecommendedCopingTools(tools, context) on the heap; recommended
\* is the array returned, read through its references.
CallByReference ==
    /\ pc = "rank"
    /\ \E call \in {getRecommendedCopingToolsByReference(heap, toolsRef, context)} :
           /\ heap' = call.heap
           /\ scoredTools' = call.ref
           /\ recommended' = arrayAt(call.heap, call.ref)
    /\ pc' = "ranked"
    /\ UNCHANGED <<tool, context, scored, tools, toolsRef, checkIns, chatMessages, now, analyzedText, analysis>>

\* The caller, between two calls: it drops the array returned, whose objects
\* become garbage unless the catalog holds them, and calls again with another
\* context and the reference to the catalog it passed before.
CallAgain ==
    /\ pc = "ranked"
    /\ context' \in CallContexts
    /\ recommended' = NotYet
    /\ scoredTools' = NO_REF
    /\ heap' = reachableFrom(heap, toolsRef)
    /\ pc' = "rank"
    /\ UNCHANGED <<tool, scored, tools, toolsRef, checkIns, chatMessages, now, analyzedText, analysis>>

NextCalls == CallByReference \/ CallAgain

SpecCalls == InitCalls /\ [][NextCalls]_vars

----------------------------------------------------------------------------
(* Sentiment specification: a text through analyzeChatSentiment             *)

MaxWords == 3

\* Words of the texts analysed: crisis terms ("scared" precedes "panic" in no
\* list order: "panic" is declared first), low-mood terms, stress terms ("tense"
\* inside "Intense"), and a word that matches nothing; some in upper case.
Words == {"Panic", "scared", "hopeless", "TIRED", "Intense", "deadline", "fine"}

WordLists == UNION { [1..n -> Words] : n \in 0..MaxWords }

\* The texts analysed: at most MaxWords words separated by single spaces.
ChatTexts == { join(ws, " ") : ws \in WordLists }

InitSentiment ==
    /\ pc = "analyze"
    /\ analyzedText \in ChatTexts
    /\ analysis = NotYet
    /\ heap = NotYet
    /\ toolsRef = NotYet
    /\ scoredTools = NotYet
    /\ tool = NotYet
    /\ context = NotYet
    /\ scored = NotYet
    /\ tools = NotYet
    /\ recommended = NotYet
    /\ checkIns = NotYet
    /\ chatMessages = NotYet
    /\ now = 0

AnalyzeChatSentiment ==
    /\ pc = "analyze"
    /\ analysis' = analyzeChatSentiment(analyzedText)
    /\ pc' = "analyzed"
    /\ UNCHANGED <<tool, context, scored, tools, recommended, checkIns, chatMessages, now,
                   analyzedText, memory>>

NextSentiment == AnalyzeChatSentiment

SpecSentiment == InitSentiment /\ [][NextSentiment]_vars

----------------------------------------------------------------------------
(* Properties of scoring and explanation (SpecScore) *)

\* What the chat summary of the context in use matches.
Sentiment == analyzeChatSentiment(context.recentChatSummary)

\* The points of the score returned that the sentiment component contributed:
\* the score less the other three components.
SentimentShare ==
    scored.score - moodCompatibility(tool, context)
                 - intensityMatching(tool, context)
                 - durationPreference(tool, context)

\* C1: for every tool and every context with currentMood one of the six moods
\* or absent and moodIntensity in 1..10, the score returned is an integer
\* between 0 and 100.
ScoreWithinBounds ==
    pc = "scored" => scored.score \in 0..100

\* C1 witness: a tool scored at the top of the range (neutral mood supported,
\* sentiment, intensity and duration all awarded).
ScoreWithinBoundsWitness ==
    /\ pc = "scored"
    /\ context.currentMood = "neutral"
    /\ scored.score = 100

\* C5: when currentMood is present, the tool whose supportedMoods holds
\* currentMood scores exactly 20 more than the tool that differs from it only
\* in lacking currentMood; the cap never reduces the difference.
MoodSupportWorthTwenty ==
    (pc = "scored" /\ context.currentMood # NULL) =>
        LET m == context.currentMood
            supporting == [tool EXCEPT !.supportedMoods = @ \cup {m}]
            other == [tool EXCEPT !.supportedMoods = @ \ {m}]
        IN  IF m \in tool.supportedMoods
            THEN scored.score = scoreTool(other, context) + 20
            ELSE scoreTool(supporting, context) = scored.score + 20

\* C5 witness: a supporting tool scored at the cap, where a cap that cut the
\* score would show.
MoodSupportWorthTwentyWitness ==
    /\ pc = "scored"
    /\ context.currentMood = "neutral"
    /\ "neutral" \in tool.supportedMoods
    /\ tool.category = "grounding"
    /\ scored.score = 100

\* C6: in the score, a crisis match silences low-mood and stress matches (only
\* breathing and grounding tools get the 30 points, every other tool gets 0),
\* and without a crisis match a low-mood match silences a stress match (only
\* reflection and cognitive tools get the 30 points).
ScoreSentimentPriority ==
    pc = "scored" =>
        /\ (Sentiment.hasCrisis /\ (Sentiment.hasStress \/ Sentiment.hasLowMood)) =>
               SentimentShare =
                   (IF tool.category \in {"breathing", "grounding"} THEN 30 ELSE 0)
        /\ (~Sentiment.hasCrisis /\ Sentiment.hasLowMood /\ Sentiment.hasStress) =>
               SentimentShare =
                   (IF tool.category \in {"reflection", "cognitive"} THEN 30 ELSE 0)

\* C6 witness: a movement tool scored under a summary that matches a crisis and
\* a stress keyword gets nothing for sentiment.
ScoreSentimentPriorityWitness ==
    /\ pc = "scored"
    /\ Sentiment.hasCrisis
    /\ Sentiment.hasStress
    /\ tool.category = "movement"
    /\ SentimentShare = 0

STRESS_FRAGMENT == "you mentioned feeling stressed or tense"
LOW_MOOD_FRAGMENT == "you expressed feelings of sadness or hopelessness"

\* C7: in the explanation, when the summary matches a crisis and a stress
\* keyword no tool's explanation holds the stress fragment, and when it matches
\* a crisis keyword no tool's explanation holds the low-mood fragment.
ExplanationSentimentPriority ==
    pc = "scored" =>
        /\ (Sentiment.hasCrisis /\ Sentiment.hasStress) =>
               ~includes(scored.reason, STRESS_FRAGMENT)
        /\ Sentiment.hasCrisis =>
               ~includes(scored.reason, LOW_MOOD_FRAGMENT)

\* The score of the tool scored, had its durationMinutes been d.
ScoreWithDuration(d) == scoreTool([tool EXCEPT !.durationMinutes = d], context)

\* C21: the duration component applies only when currentMood is absent or
\* neutral. For currentMood anxious, frustrated, sad, calm or happy, two tools
\* that differ only in durationMinutes receive the same score; for currentMood
\* absent or neutral, a tool of at most 3 minutes scores exactly 10 more, and
\* one of more than 3 and at most 5 minutes exactly 5 more, than the same tool
\* with more than 5 minutes.
DurationOnlyWhenUnsure ==
    pc = "scored" =>
        \A d \in 1..MaxDuration :
            /\ context.currentMood \in {"anxious", "frustrated", "sad", "calm", "happy"}
                 => scored.score = ScoreWithDuration(d)
            /\ (context.currentMood \in {NULL, "neutral"} /\ d > 5) =>
                 /\ tool.durationMinutes <= 3
                      => scored.score = ScoreWithDuration(d) + 10
                 /\ (3 < tool.durationMinutes /\ tool.durationMinutes <= 5)
                      => scored.score = ScoreWithDuration(d) + 5

\* C21 witness: under a neutral mood a tool of exactly 3 minutes reached the
\* cap of 100, 10 more than the same tool with 6 minutes.
DurationOnlyWhenUnsureWitness ==
    /\ pc = "scored"
    /\ context.currentMood = "neutral"
    /\ tool.durationMinutes = 3
    /\ scored.score = 100
    /\ ScoreWithDuration(6) = 90

CRISIS_FRAGMENT == "you mentioned feeling overwhelmed"

\* The sentiment fragment of the branch of scoreTool that awarded the tool
\* scored its sentiment points, if one did.
AwardingBranchFragment ==
    IF SentimentShare # SENTIMENT_POINTS THEN <<>>
    ELSE IF Sentiment.hasCrisis THEN <<CRISIS_FRAGMENT>>
    ELSE IF Sentiment.hasLowMood THEN <<LOW_MOOD_FRAGMENT>>
    ELSE <<STRESS_FRAGMENT>>

\* The sentiment fragments that the explanation returned holds.
FragmentsExplained ==
    { f \in {CRISIS_FRAGMENT, LOW_MOOD_FRAGMENT, STRESS_FRAGMENT} :
        includes(scored.reason, f) }

\* C22: score and explanation agree on the sentiment signal. For every tool
\* and context the explanation holds a sentiment fragment if and only if the
\* score holds the 30 sentiment points, and the fragment is that of the
\* category (crisis, low mood, stress) whose branch awarded the points.
ScoreAndExplanationAgree ==
    pc = "scored" =>
        /\ (FragmentsExplained # {}) <=> (SentimentShare = SENTIMENT_POINTS)
        /\ FragmentsExplained = { AwardingBranchFragment[i] : i \in 1..Len(AwardingBranchFragment) }

----------------------------------------------------------------------------
(* Properties of ranking (Spec) *)

\* The positions of the result that hold the catalog tool with this id.
PositionsOf(id) == { j \in 1..Len(recommended) : recommended[j].id = id }

\* C2: the result has exactly as many entries as the catalog, every catalog
\* tool appears in it exactly once whatever its score, and an empty catalog
\* gives an empty result.
RecommendKeepsEveryTool ==
    pc = "ranked" =>
        /\ Len(recommended) = Len(tools)
        /\ \A i \in 1..Len(tools) : Cardinality(PositionsOf(tools[i].id)) = 1

\* C2 witness: a full-length catalog ranked with a tool scored 10 in it.
RecommendKeepsEveryToolWitness ==
    /\ pc = "ranked"
    /\ Len(tools) = MaxTools
    /\ Len(recommended) = MaxTools
    /\ \E j \in 1..Len(recommended) : recommended[j].score = 10

\* C3: the result is in non-increasing order of score, and the score of each
\* entry is scoreTool of that catalog tool under the context given.
RecommendOrderedByScore ==
    pc = "ranked" =>
        /\ \A i, j \in 1..Len(recommended) :
               i < j => recommended[i].score >= recommended[j].score
        /\ \A i \in 1..Len(tools) :
               \A j \in PositionsOf(tools[i].id) :
                   recommended[j].score = scoreTool(tools[i], context)

\* C3 witness: a catalog given in strictly increasing order of score, returned
\* reversed.
RecommendOrderedByScoreWitness ==
    /\ pc = "ranked"
    /\ Len(tools) = 3
    /\ scoreTool(tools[1], context) < scoreTool(tools[2], context)
    /\ scoreTool(tools[2], context) < scoreTool(tools[3], context)
    /\ recommended[1].id = tools[3].id
    /\ recommended[3].id = tools[1].id

\* C4: two catalog tools with equal scores keep their catalog order in the
\* result.
RecommendSortStable ==
    pc = "ranked" =>
        \A i, j \in 1..Len(tools) :
            (i < j /\ scoreTool(tools[i], context) = scoreTool(tools[j], context)) =>
                \A a \in PositionsOf(tools[i].id), b \in PositionsOf(tools[j].id) : a < b

\* C4 witness: two tied tools followed in the catalog by a tool that outscores
\* them, so that the sort moves entries and the tied pair stays in order.
RecommendSortStableWitness ==
    /\ pc = "ranked"
    /\ Len(tools) = 3
    /\ scoreTool(tools[1], context) = scoreTool(tools[2], context)
    /\ scoreTool(tools[3], context) > scoreTool(tools[1], context)
    /\ recommended[1].id = tools[3].id
    /\ recommended[2].id = tools[1].id
    /\ recommended[3].id = tools[2].id

----------------------------------------------------------------------------
(* Properties of context building (SpecContext) *)

\* The mood of the check-in the call takes as today's current mood, NULL when
\* no check-in is dated today.
SelectedMood ==
    LET todayCheckIns == filterToday(checkIns, toDateString(now))
    IN  IF Len(todayCheckIns) > 0 THEN todayCheckIns[1].mood ELSE NULL

\* C8: a call whose selected check-in carries a mood outside the closed set
\* fails instead of returning a context.
BuildRejectsUnknownMood ==
    pc = "returned" => SelectedMood \in Mood \cup {NULL}

\* The fixed table of the specification: resolve(mood), 5 for an absent mood.
\* It has no entry for a mood outside the closed set.
TableIntensity(mood) ==
    CASE mood = "anxious"    -> {8}
      [] mood = "frustrated" -> {7}
      [] mood = "sad"        -> {6}
      [] mood = "neutral"    -> {4}
      [] mood = "calm"       -> {3}
      [] mood = "happy"      -> {2}
      [] mood = NULL         -> {5}
      [] OTHER               -> {}

\* C9: every context returned has moodIntensity = resolve(currentMood) by the
\* fixed table, hence within 1..10, and when no check-in is dated today
\* currentMood is absent and moodIntensity is 5.
BuildIntensityFromTable ==
    pc = "returned" =>
        /\ context.moodIntensity \in TableIntensity(context.currentMood)
        /\ context.moodIntensity \in 1..10
        /\ (\A i \in 1..Len(checkIns) : toDateString(checkIns[i].createdAt) # toDateString(now)) =>
               (context.currentMood = NULL /\ context.moodIntensity = 5)

\* The positions of the check-ins whose creation date is the current date.
TodayIndexes ==
    { i \in 1..Len(checkIns) : toDateString(checkIns[i].createdAt) = toDateString(now) }

Reverse(seq) == [ i \in 1..Len(seq) |-> seq[Len(seq) + 1 - i] ]

\* The check-ins dated today, in the order given.
TodayOnly == SelectSeq(checkIns, LAMBDA c : toDateString(c.createdAt) = toDateString(now))

\* C12: currentMood is the mood of the first check-in dated today in the order
\* the caller gave, absent when there is none; the same check-ins in reversed
\* order give the mood of the last one dated today (nothing is sorted by
\* timestamp), and the check-ins of other days change nothing.
BuildTakesFirstOfToday ==
    pc = "returned" =>
        /\ context.currentMood =
               (IF TodayIndexes = {} THEN NULL
                ELSE checkIns[CHOOSE i \in TodayIndexes : \A k \in TodayIndexes : i <= k].mood)
        /\ buildRecommendationContext(Reverse(checkIns), chatMessages, now).currentMood =
               (IF TodayIndexes = {} THEN NULL
                ELSE checkIns[CHOOSE i \in TodayIndexes : \A k \in TodayIndexes : i >= k].mood)
        /\ buildRecommendationContext(TodayOnly, chatMessages, now).currentMood =
               context.currentMood

\* C12 witness: two check-ins of today given oldest first: currentMood is the
\* mood of the older one.
BuildTakesFirstOfTodayWitness ==
    /\ pc = "returned"
    /\ Len(checkIns) = 2
    /\ TodayIndexes = {1, 2}
    /\ checkIns[1].createdAt < checkIns[2].createdAt
    /\ checkIns[1].mood = "sad"
    /\ checkIns[2].mood = "happy"
    /\ context.currentMood = "sad"

\* The texts of the first n messages, each two separated by one space.
RECURSIVE SpaceSeparated(_, _)
SpaceSeparated(msgs, n) ==
    IF n = 0 THEN ""
    ELSE IF n = 1 THEN msgs[1].text
    ELSE SpaceSeparated(msgs, n - 1) \o " " \o msgs[n].text

\* C13: recentChatSummary is the texts of the first 5 messages in the order
\* given, separated by single spaces; messages from the sixth on change nothing
\* in the context; chatKeywords is keywords of analyzeChatSentiment of the
\* summary; with no messages (an empty list, or the argument omitted) the
\* summary is "", chatKeywords is empty and the summary raises no flag.
BuildSummaryOfFirstFive ==
    pc = "returned" =>
        LET msgs == chatMessages.list
            firstFive == SubSeq(msgs, 1, IF Len(msgs) < 5 THEN Len(msgs) ELSE 5)
            of == analyzeChatSentiment(context.recentChatSummary)
        IN  /\ context.recentChatSummary = SpaceSeparated(msgs, Len(firstFive))
            /\ context = buildRecommendationContext(
                             checkIns, [given |-> TRUE, list |-> firstFive], now)
            /\ context.chatKeywords = of.keywords
            /\ (~chatMessages.given \/ Len(msgs) = 0) =>
                   /\ context.recentChatSummary = ""
                   /\ context.chatKeywords = <<>>
                   /\ ~of.hasCrisis /\ ~of.hasLowMood /\ ~of.hasStress

\* C13 witness: six messages whose only keyword is in the sixth: no keyword in
\* the context, and a summary of five texts.
BuildSummaryOfFirstFiveWitness ==
    /\ pc = "returned"
    /\ Len(chatMessages.list) = 6
    /\ chatMessages.list[6].text = "PANIC"
    /\ context.recentChatSummary = "ok ok ok ok ok"
    /\ context.chatKeywords = <<>>

\* The sentiment fragments that apply to the tool scored: the flag of the
\* summary is raised and the tool's category is one the fragment is for.
ApplicableSentimentFragments ==
    (IF Sentiment.hasCrisis /\ tool.category \in {"breathing", "grounding"}
     THEN {"you mentioned feeling overwhelmed"} ELSE {})
    \cup
    (IF Sentiment.hasLowMood /\ tool.category \in {"reflection", "cognitive"}
     THEN {"you expressed feelings of sadness or hopelessness"} ELSE {})
    \cup
    (IF Sentiment.hasStress /\ tool.category \in {"movement", "grounding"}
     THEN {"you mentioned feeling stressed or tense"} ELSE {})

\* The fragments of a non-empty sequence, each two separated by " and ".
RECURSIVE AndSeparated(_)
AndSeparated(frs) ==
    IF Len(frs) = 1 THEN frs[1]
    ELSE frs[1] \o " and " \o AndSeparated(Tail(frs))

\* C14: when no fragment applies (currentMood absent, no sentiment fragment for
\* the tool's category, and not (moodIntensity >= 7 and intensityLevel high))
\* the explanation is exactly "This {category} technique is gentle and
\* effective."; otherwise it is "This technique is suggested because ", then
\* the fragments in the order mood, at most one sentiment fragment, quick
\* relief, joined by " and ", then ".".
ExplanationText ==
    pc = "scored" =>
        LET moodFragment ==
                IF context.currentMood = NULL THEN <<>>
                ELSE <<"you felt " \o context.currentMood \o " today">>
            sentimentFragments ==
                IF ApplicableSentimentFragments = {} THEN {<<>>}
                ELSE { <<f>> : f \in ApplicableSentimentFragments }
            reliefFragment ==
                IF context.moodIntensity >= 7 /\ tool.intensityLevel = "high"
                THEN <<"this offers quick relief">>
                ELSE <<>>
        IN  IF moodFragment = <<>> /\ ApplicableSentimentFragments = {}
               /\ reliefFragment = <<>>
            THEN scored.reason
                   = "This " \o tool.category \o " technique is gentle and effective."
            ELSE \E sf \in sentimentFragments :
                   scored.reason
                     = "This technique is suggested because "
                         \o AndSeparated(moodFragment \o sf \o reliefFragment)
                         \o "."

\* C14 witness: an explanation made of all three fragments.
ExplanationTextWitness ==
    /\ pc = "scored"
    /\ context.currentMood = "anxious"
    /\ Sentiment.hasCrisis
    /\ tool.category = "breathing"
    /\ tool.intensityLevel = "high"
    /\ context.moodIntensity = 8
    /\ scored.reason = "This technique is suggested because you felt anxious today and you mentioned feeling overwhelmed and this offers quick relief."

\* C15: Scenario A (crisis). With currentMood anxious, moodIntensity 8 and the
\* summary "I'm having a panic attack, can't breathe", hasCrisis is true and a
\* breathing tool that supports anxious with intensityLevel high scores exactly
\* 90 = 40 mood + 30 crisis + 20 intensity + 0 duration, whatever its duration.
ScenarioCrisisScore ==
    (/\ pc = "scored"
     /\ context.currentMood = "anxious"
     /\ context.moodIntensity = 8
     /\ context.recentChatSummary = SCENARIO_A_TEXT)
    => /\ Sentiment.hasCrisis
       /\ (/\ tool.category = "breathing"
           /\ "anxious" \in tool.supportedMoods
           /\ tool.intensityLevel = "high")
          => /\ scored.score = 90
             /\ moodCompatibility(tool, context) = 40
             /\ SentimentShare = 30
             /\ intensityMatching(tool, context) = 20
             /\ durationPreference(tool, context) = 0

\* C15 witness: such a tool of 2 minutes (short enough for the duration points
\* of another mood) scored 90 in Scenario A.
ScenarioCrisisScoreWitness ==
    /\ pc = "scored"
    /\ context.currentMood = "anxious"
    /\ context.moodIntensity = 8
    /\ context.recentChatSummary = SCENARIO_A_TEXT
    /\ tool.category = "breathing"
    /\ "anxious" \in tool.supportedMoods
    /\ tool.intensityLevel = "high"
    /\ tool.durationMinutes = 2
    /\ scored.score = 90

\* C16: Scenario B (low mood). With currentMood sad, moodIntensity 6 and the
\* summary "Feeling hopeless today, everything feels heavy", hasLowMood is true
\* and hasCrisis false, and a reflection tool that supports sad with
\* intensityLevel low scores exactly 85 = 40 + 30 + 15 + 0, whatever its
\* duration.
ScenarioLowMoodScore ==
    (/\ pc = "scored"
     /\ context.currentMood = "sad"
     /\ context.moodIntensity = 6
     /\ context.recentChatSummary = SCENARIO_B_TEXT)
    => /\ Sentiment.hasLowMood
       /\ ~Sentiment.hasCrisis
       /\ (/\ tool.category = "reflection"
           /\ "sad" \in tool.supportedMoods
           /\ tool.intensityLevel = "low")
          => /\ scored.score = 85
             /\ moodCompatibility(tool, context) = 40
             /\ SentimentShare = 30
             /\ intensityMatching(tool, context) = 15
             /\ durationPreference(tool, context) = 0

\* C16 witness: such a tool of 6 minutes scored 85 in Scenario B.
ScenarioLowMoodScoreWitness ==
    /\ pc = "scored"
    /\ context.currentMood = "sad"
    /\ context.moodIntensity = 6
    /\ context.recentChatSummary = SCENARIO_B_TEXT
    /\ tool.category = "reflection"
    /\ "sad" \in tool.supportedMoods
    /\ tool.intensityLevel = "low"
    /\ tool.durationMinutes = 6
    /\ scored.score = 85

\* C17: Scenario C (neutral/empty). For the context built from no check-in
\* dated today and empty chat messages, currentMood is absent, moodIntensity is
\* 5 and the summary is ""; the sentiment component is 0 for every tool, and a
\* tool of 2 minutes scores exactly 30 if its intensityLevel is medium, 25 if
\* low and 10 if high.
ScenarioEmptyScore ==
    (pc = "scored" /\ TodayIndexes = {} /\ chatMessages.list = <<>>)
    => /\ context.currentMood = NULL
       /\ context.moodIntensity = 5
       /\ context.recentChatSummary = ""
       /\ SentimentShare = 0
       /\ sentimentAlignment(tool, context) = 0
       /\ tool.durationMinutes = 2 =>
             scored.score = (CASE tool.intensityLevel = "medium" -> 30
                               [] tool.intensityLevel = "low"    -> 25
                               [] tool.intensityLevel = "high"   -> 10)

\* C17 witness: a check-in of another day and an empty chat; a high-intensity
\* tool of 2 minutes that supports no mood scored 10.
ScenarioEmptyScoreWitness ==
    /\ pc = "scored"
    /\ Len(checkIns) = 1
    /\ TodayIndexes = {}
    /\ chatMessages.given
    /\ chatMessages.list = <<>>
    /\ tool.durationMinutes = 2
    /\ tool.intensityLevel = "high"
    /\ scored.score = 10

\* The titles of the first three entries returned.
TopThreeTitles == [ i \in 1..3 |-> recommended[i].title ]

\* C18: on the shipped catalog, in the Low Mood test scenario (sad, intensity
\* 6, messages "Feeling hopeless today" and "Everything feels heavy"), the
\* ranking starts with Self-Compassion Break, Cognitive Reframing, Gratitude
\* Reflection.
ShippedLowMoodRanking ==
    (/\ pc = "ranked"
     /\ context.currentMood = "sad"
     /\ context.moodIntensity = 6
     /\ chatMessages.list = LOW_MOOD_MESSAGES)
    => TopThreeTitles
         = <<"Self-Compassion Break", "Cognitive Reframing", "Gratitude Reflection">>

\* C19: on the shipped catalog, in the High Anxiety test scenario (anxious,
\* intensity 8, messages "I'm having a panic attack" and "Can't breathe"), the
\* first three entries returned are Box Breathing, 5-4-3-2-1 Grounding and
\* 4-7-8 Breathing, in that order.
ShippedHighAnxietyRanking ==
    (/\ pc = "ranked"
     /\ context.currentMood = "anxious"
     /\ context.moodIntensity = 8
     /\ chatMessages.list = HIGH_ANXIETY_MESSAGES)
    => TopThreeTitles = <<"Box Breathing", "5-4-3-2-1 Grounding", "4-7-8 Breathing">>

\* C19 witness: the High Anxiety scenario ranked, Box Breathing and 5-4-3-2-1
\* Grounding tied at 90 and kept in catalog order, 4-7-8 Breathing at 80.
ShippedHighAnxietyRankingWitness ==
    /\ pc = "ranked"
    /\ context.currentMood = "anxious"
    /\ context.moodIntensity = 8
    /\ chatMessages.list = HIGH_ANXIETY_MESSAGES
    /\ context.recentChatSummary = "I'm having a panic attack Can't breathe"
    /\ recommended[1].id = "box-breathing" /\ recommended[1].score = 90
    /\ recommended[2].id = "54321-grounding" /\ recommended[2].score = 90
    /\ recommended[3].id = "478-breathing" /\ recommended[3].score = 80

\* The fields of a CopingTool, and the two that a RecommendedTool adds.
ToolFields ==
    {"id", "title", "category", "supportedMoods", "intensityLevel", "durationMinutes"}
RecommendedFields == ToolFields \cup {"score", "reason"}

\* The references the catalog array holds, in its order.
CatalogRefs == heap.arrays[toolsRef]

\* C20: getRecommendedCopingTools never mutates its inputs. Over any sequence
\* of calls with any contexts, every step leaves the catalog array with the
\* references it held, in the same order, and every catalog object and its
\* supportedMoods array with the values they held, no score or reason among
\* them, so that the catalog still reads as it did before the first call; the
\* array a call returns is a new array, and each of its entries a new object
\* whose properties are those of one catalog tool plus score and reason.
CallsLeaveCatalogAlone ==
    [][ /\ heap'.arrays[toolsRef'] = CatalogRefs
        /\ \A i \in 1..Len(CatalogRefs) :
              /\ heap'.objects[CatalogRefs[i]] = heap.objects[CatalogRefs[i]]
              /\ DOMAIN heap'.objects[CatalogRefs[i]] = ToolFields
              /\ heap'.moods[heap.objects[CatalogRefs[i]].supportedMoods]
                   = heap.moods[heap.objects[CatalogRefs[i]].supportedMoods]
        /\ arrayAt(heap', toolsRef') = tools
        /\ pc' = "ranked" =>
              /\ scoredTools' \notin DOMAIN heap.arrays
              /\ Len(heap'.arrays[scoredTools']) = Len(CatalogRefs)
              /\ \A k \in 1..Len(heap'.arrays[scoredTools']) :
                    LET entry == heap'.arrays[scoredTools'][k]
                    IN  /\ entry \notin DOMAIN heap.objects
                        /\ DOMAIN heap'.objects[entry] = RecommendedFields
                        /\ \E i \in 1..Len(CatalogRefs) :
                              /\ \A f \in ToolFields :
                                    heap'.objects[entry][f] = heap.objects[CatalogRefs[i]][f]
                              /\ heap'.objects[entry].score = scoreTool(tools[i], context)
                              /\ heap'.objects[entry].reason
                                   = generateExplanation(tools[i], context)
      ]_vars

\* C20 witness: a call returned a new array of three new objects in another
\* order than the catalog's, and the catalog array and its objects are as
\* they were made.
CallsLeaveCatalogAloneWitness ==
    /\ pc = "ranked"
    /\ Len(tools) = 3
    /\ tools[1].id = "affirmations"
    /\ tools[2].id = "box-breathing"
    /\ tools[3].id = "54321-grounding"
    /\ scoredTools # toolsRef
    /\ heap.arrays[toolsRef] = <<1, 2, 3>>
    /\ heap.arrays[scoredTools] = <<9, 10, 8>>
    /\ recommended[1].id = "box-breathing"
    /\ recommended[3].id = "affirmations"
    /\ arrayAt(heap, toolsRef) = tools
    /\ \A i \in 1..3 : DOMAIN heap.objects[i] = ToolFields
    /\ DOMAIN heap.objects[9] = RecommendedFields

----------------------------------------------------------------------------
(* Properties of sentiment analysis (SpecSentiment) *)

\* The indexes of the terms of a keyword list that are case-insensitive
\* substrings of the text analysed.
TermsFound(list) == { i \in 1..Len(list) : includes(toLowerCase(analyzedText), list[i]) }

\* What a category is to record: nothing, or the first term found, in the order
\* the list declares.
FirstTermFound(list) ==
    IF TermsFound(list) = {} THEN <<>>
    ELSE << list[CHOOSE i \in TermsFound(list) : \A k \in TermsFound(list) : i <= k] >>

\* C11: for every text, keywords holds at most three terms: for crisis, low
\* mood and stress, in that order, nothing or exactly the first term of the
\* category's list that is a case-insensitive substring of the text; each flag
\* is true exactly when its category recorded a term, independently of the
\* other two.
SentimentFirstMatchPerCategory ==
    pc = "analyzed" =>
        /\ Len(analysis.keywords) <= 3
        /\ analysis.keywords = FirstTermFound(CRISIS_KEYWORDS)
                                 \o FirstTermFound(LOW_MOOD_KEYWORDS)
                                 \o FirstTermFound(STRESS_KEYWORDS)
        /\ analysis.hasCrisis = (TermsFound(CRISIS_KEYWORDS) # {})
        /\ analysis.hasLowMood = (TermsFound(LOW_MOOD_KEYWORDS) # {})
        /\ analysis.hasStress = (TermsFound(STRESS_KEYWORDS) # {})

\* C11 witness: a text with two crisis terms, the later-declared one first in
\* the text, and a stress term: one crisis keyword recorded, two flags true.
SentimentFirstMatchPerCategoryWitness ==
    /\ pc = "analyzed"
    /\ analyzedText = "scared Panic deadline"
    /\ analysis.keywords = <<"panic", "deadline">>
    /\ analysis.hasCrisis
    /\ ~analysis.hasLowMood
    /\ analysis.hasStress

====
